---- MODULE Spec2Model ----
(***************************************************************************)
(* A model of git-prev / git-next (git_prev_next.py) and of the parts of   *)
(* gitutils.py they run: git_commit_graph and GraphNode, the two prompts,  *)
(* the git queries and the entrypoint wrapper.                             *)
(*                                                                         *)
(* Data representation.  Commit ids are opaque strings.  The output of     *)
(* `git rev-list --children --all` is held as the sequence of its lines,   *)
(* each line as the sequence of its whitespace-separated tokens (what      *)
(* splitlines() and split() deliver); a blank line is the empty sequence.  *)
(* GraphNode objects live in the heap `nodes`; a reference to a node is    *)
(* its index in the heap.  Text that the program compares or cuts (input   *)
(* lines, choice spellings, labels) is a sequence of one-character         *)
(* strings.  What is printed is recorded as a sequence of print events.    *)
(* An optional value is <<>> for None and <<v>> for the value v.  The      *)
(* echo of commands under --verbose and signals (an interrupt from the     *)
(* keyboard) are not modelled.                                             *)
(***************************************************************************)
EXTENDS Integers, Sequences, FiniteSets, TLC

VARIABLES
    pc,                  \* position of the run
    mode,                \* Mode.PREV or Mode.NEXT
    HEAD,                \* the repository's current position
    commands,            \* every command handed to run_command, with its return code
    attach,              \* main's `attach`
    listing,             \* stdout of `git rev-list --children --all`, tokenised
    lines,               \* the lines git_commit_graph has still to process
    nodes,               \* heap of GraphNode objects
    commit_graph,        \* git_commit_graph's dictionary: commit hash -> node
    graph,               \* main's `commit_graph`: <<>> until git_commit_graph returns
    head_hash,           \* main's `head_hash`
    target_hashes,       \* main's `target_hashes`
    commit_descriptions, \* prompt_for_hash's `commit_descriptions`
    selected_hash,       \* main's `selected_hash`
    local_branches,      \* main's `local_branches`
    selected_branch,     \* main's `selected_branch`
    caller,              \* who called prompt_with_numbered_choices
    choices,             \* prompt_with_numbered_choices: `choices`
    default_index,       \* prompt_with_numbered_choices: `default_index`
    instructions,        \* prompt_with_numbered_choices: `instructions`
    selected_index,      \* what prompt_with_numbered_choices returned
    pwc_caller,          \* who called prompt_with_choices
    pwc_choices,         \* prompt_with_choices: `choices`, as tuples
    pwc_default,         \* prompt_with_choices: `default`
    invalid_handler,     \* prompt_with_choices: `invalid_handler`
    raw_response,        \* prompt_with_choices: `raw_response`
    response,            \* what prompt_with_choices returned
    stdout,              \* what the run printed on standard output
    nread,               \* number of lines read from standard input
    raised,              \* the exception that ended main
    retval,              \* main's return value
    exit_status,         \* the exit status of the run
    stderr,              \* what the run printed on standard error
    origin,              \* the position an earlier run of main has moved from
    call                 \* a call of a function of gitutils and what it gave

envVars == <<mode, HEAD, commands, attach>>
graphVars == <<listing, lines, nodes, commit_graph, graph>>
mainVars == <<head_hash, target_hashes, commit_descriptions, selected_hash,
              local_branches, selected_branch>>
pncVars == <<caller, choices, default_index, instructions, selected_index>>
pwcVars == <<pwc_caller, pwc_choices, pwc_default, invalid_handler,
             raw_response, response>>
ioVars == <<stdout, nread>>
endVars == <<raised, retval, exit_status, stderr>>
auxVars == <<origin, call>>

vars == <<pc, envVars, graphVars, mainVars, pncVars, pwcVars, ioVars, endVars,
          auxVars>>

-----------------------------------------------------------------------------
(* Bounds of the model *)

MaxLines == 2       \* lines in the rev-list output
MaxTokens == 4      \* commit ids in the rev-list output, all lines together
MaxInput == 2       \* lines standard input holds
MaxText == 11       \* characters of a string handed to ellipsize
MaxWord == 3        \* characters of a string handed to remove_prefix

-----------------------------------------------------------------------------
(* Values *)

None == "None"
PREV == "PREV"
NEXT == "NEXT"

CommitSeq == <<"a", "b", "c">>
Commits == {CommitSeq[i] : i \in 1..Len(CommitSeq)}

\* Return codes a git command may end with.
RetCodes == {0, 1, 128}
FailCodes == RetCodes \ {0}

SeqsUpTo(S, n) == UNION {[1..k -> S] : k \in 0..n}

RECURSIVE SumSeq(_)
SumSeq(s) == IF s = <<>> THEN 0 ELSE Head(s) + SumSeq(Tail(s))

RECURSIVE Reverse(_)
Reverse(s) == IF s = <<>> THEN <<>> ELSE Append(Reverse(Tail(s)), Head(s))

\* The lines of widths `lens` cut from the token sequence `flat`.
RECURSIVE Cut(_, _)
Cut(flat, lens) ==
    IF lens = <<>> THEN <<>>
    ELSE <<SubSeq(flat, 1, Head(lens))>>
         \o Cut(SubSeq(flat, Head(lens) + 1, Len(flat)), Tail(lens))

\* Commit ids are opaque, so a listing is taken up to renaming: its ids
\* make their first appearance in the order of CommitSeq.
FirstUse(flat) ==
    \A i \in 1..Len(flat) :
        \/ flat[i] = CommitSeq[1]
        \/ \E k \in 2..Len(CommitSeq) :
              /\ flat[i] = CommitSeq[k]
              /\ \E j \in 1..(i - 1) : flat[j] = CommitSeq[k - 1]

\* Every rev-list output within the bounds: any lines, blank ones included.
Listings ==
    UNION { { Cut(flat, lens) :
                lens \in { l \in SeqsUpTo(0..Len(flat), MaxLines) :
                             SumSeq(l) = Len(flat) } } :
            flat \in { f \in SeqsUpTo(Commits, MaxTokens) : FirstUse(f) } }

-----------------------------------------------------------------------------
(* GraphNode (gitutils.py:62) *)

GraphNode(commit_hash) ==
    [commit_hash |-> commit_hash, parents |-> <<>>, children |-> <<>>]

\* child.parents.append(self), for each child in turn
RECURSIVE AppendParent(_, _, _)
AppendParent(heap, self, children) ==
    IF children = <<>> THEN heap
    ELSE AppendParent([heap EXCEPT ![Head(children)].parents = Append(@, self)],
                      self, Tail(children))

\* add_children without `child.parents.append(self)`: the edge is recorded
\* on the parent's side only.
add_children_one_way(heap, self, children) ==
    [heap EXCEPT ![self].children = @ \o children]

\* GraphNode.add_children: the heap after self.add_children(children)
add_children(heap, self, children) ==
    LET linked == AppendParent(heap, self, children)
    IN  [linked EXCEPT ![self].children = @ \o children]

\* A plain assignment commit_graph[h] = GraphNode(h) in place of setdefault:
\* a key that is already present gets a new node.
setdefault_overwrite(g, h) ==
    [heap |-> Append(g.heap, GraphNode(h)),
     dict |-> [k \in DOMAIN g.dict \cup {h} |->
                 IF k = h THEN Len(g.heap) + 1 ELSE g.dict[k]]]

\* commit_graph.setdefault(h, GraphNode(h)) on the pair g = [heap, dict]:
\* the node is allocated only when h is not yet a key.
setdefault(g, h) ==
    IF h \in DOMAIN g.dict THEN g
    ELSE [heap |-> Append(g.heap, GraphNode(h)),
          dict |-> (h :> (Len(g.heap) + 1)) @@ g.dict]

RECURSIVE setdefault_each(_, _)
setdefault_each(g, hashes) ==
    IF hashes = <<>> THEN g
    ELSE setdefault_each(setdefault(g, Head(hashes)), Tail(hashes))

\* The loop body with the children linked last to first.
process_line_backwards(g, line) ==
    LET parent_hash == Head(line)
        children_hashes == Reverse(Tail(line))
        g1 == setdefault(g, parent_hash)
        g2 == setdefault_each(g1, children_hashes)
        children == [i \in 1..Len(children_hashes) |-> g2.dict[children_hashes[i]]]
    IN  [heap |-> add_children(g2.heap, g2.dict[parent_hash], children),
         dict |-> g2.dict]

\* The body of git_commit_graph's loop for one line with at least one token.
process_line(g, line) ==
    LET parent_hash == Head(line)
        children_hashes == Tail(line)
        g1 == setdefault(g, parent_hash)
        g2 == setdefault_each(g1, children_hashes)
        children == [i \in 1..Len(children_hashes) |-> g2.dict[children_hashes[i]]]
    IN  [heap |-> add_children(g2.heap, g2.dict[parent_hash], children),
         dict |-> g2.dict]

\* The lines taken in the order git printed them.
line_order_as_printed(ls) == ls

\* reversed(result.stdout.splitlines())
line_order(ls) == Reverse(ls)

EmptyDict == [h \in {} |-> 0]

-----------------------------------------------------------------------------
(* Text *)

Whitespace == {" ", "\t"}

UpperCase == <<"E", "H", "I", "L", "N", "O", "P", "Q", "S", "T", "U", "X", "Y">>
LowerCase == <<"e", "h", "i", "l", "n", "o", "p", "q", "s", "t", "u", "x", "y">>

\* str.casefold on one character of the alphabet in use
fold_char(c) ==
    IF \E i \in 1..Len(UpperCase) : UpperCase[i] = c
    THEN LowerCase[CHOOSE i \in 1..Len(UpperCase) : UpperCase[i] = c]
    ELSE c

casefold(s) == [i \in 1..Len(s) |-> fold_char(s[i])]

RECURSIVE lstrip(_)
lstrip(s) ==
    IF s # <<>> /\ Head(s) \in Whitespace THEN lstrip(Tail(s)) ELSE s

rstrip(s) == Reverse(lstrip(Reverse(s)))

strip(s) == rstrip(lstrip(s))

\* prompt_with_choices.normalize_choice_str
normalize_choice_str(s) == casefold(strip(s))

DigitChars == <<"0", "1", "2", "3", "4", "5", "6", "7", "8", "9">>

\* str(n) for n >= 0
RECURSIVE str(_)
str(n) ==
    IF n < 10 THEN <<DigitChars[n + 1]>>
    ELSE str(n \div 10) \o <<DigitChars[(n % 10) + 1]>>

digit_value(c) == (CHOOSE i \in 1..10 : DigitChars[i] = c) - 1

\* int(s) for a string of decimal digits
RECURSIVE int(_)
int(s) ==
    IF Len(s) = 1 THEN digit_value(s[1])
    ELSE 10 * int(SubSeq(s, 1, Len(s) - 1)) + digit_value(s[Len(s)])

startswith(s, prefix) ==
    /\ Len(prefix) <= Len(s)
    /\ SubSeq(s, 1, Len(prefix)) = prefix

\* remove_prefix without its test of `s`
remove_prefix_of_any(s, prefix, default) ==
    IF startswith(s, prefix)
    THEN <<SubSeq(s, Len(prefix) + 1, Len(s))>>
    ELSE default

\* remove_prefix; `default` and the result are optional values:
\* <<>> is None and <<t>> is the string t.
remove_prefix(s, prefix, default) ==
    IF s # <<>> /\ startswith(s, prefix)
    THEN <<SubSeq(s, Len(prefix) + 1, Len(s))>>
    ELSE default

\* A terminal width: a number of columns, or math.inf.
Columns(n) == [inf |-> FALSE, n |-> n]
Unbounded == [inf |-> TRUE, n |-> 0]

\* terminal_size().columns - 1
max_length(columns) ==
    IF columns.inf THEN columns ELSE Columns(columns.n - 1)

\* `assert width > 0` of ellipsize
ellipsize_precondition(width) == width.inf \/ width.n > 0

Ellipsis == <<".", ".", ".">>

\* The string cut to its width, without an ellipsis
ellipsize_cutting(s, width) ==
    IF width.inf \/ Len(s) <= width.n THEN s
    ELSE SubSeq(s, 1, width.n)

\* The ellipsis put after `width` characters of the string
ellipsize_appending(s, width) ==
    IF width.inf \/ Len(s) <= width.n THEN s
    ELSE SubSeq(s, 1, width.n) \o Ellipsis

\* ellipsize, where its precondition holds
ellipsize(s, width) ==
    IF width.inf \/ Len(s) <= width.n THEN s
    ELSE IF width.n < Len(Ellipsis) THEN SubSeq(s, 1, width.n)
    ELSE SubSeq(s, 1, width.n - Len(Ellipsis)) \o Ellipsis

\* f"  {i}: {choice}"
item_line(i, choice) == <<" ", " ">> \o str(i) \o <<":", " ">> \o choice

\* The item lines of `instructions` (gitutils.py:383-384)
item_lines(choice_list, width) ==
    [i \in 1..Len(choice_list) |->
        ellipsize(item_line(i, choice_list[i]), width)]

HelpChoice == << <<"?">>, <<"h">>, <<"h", "e", "l", "p">> >>
QuitChoice == << <<"q">>, <<"q", "u", "i", "t">> >>

\* allowed_inputs of prompt_with_numbered_choices, every element as the
\* tuple of its spellings (gitutils.py:302-305 and 395-396)
allowed_inputs(max_choice) ==
    [i \in 1..max_choice |-> <<str(i)>>] \o <<HelpChoice, QuitChoice>>

\* choices_table of prompt_with_choices: normalized spelling -> canonical
\* spelling.  The dictionary comprehension runs over the choices in order,
\* so of two choices with a common normalized spelling the later one stays.
table_keys(choice_list) ==
    UNION { {normalize_choice_str(choice_list[i][j]) :
                j \in 1..Len(choice_list[i])} : i \in 1..Len(choice_list) }

has_spelling(choice_tuple, key) ==
    \E j \in 1..Len(choice_tuple) : normalize_choice_str(choice_tuple[j]) = key

\* A table that answers with the spelling it was asked for
choices_table_of_keys(choice_list) ==
    [key \in table_keys(choice_list) |-> key]

choices_table(choice_list) ==
    [key \in table_keys(choice_list) |->
        LET last == CHOOSE i \in 1..Len(choice_list) :
                        /\ has_spelling(choice_list[i], key)
                        /\ \A k \in (i + 1)..Len(choice_list) :
                              ~has_spelling(choice_list[k], key)
        IN  choice_list[last][1]]

-----------------------------------------------------------------------------
(* Exceptions, messages and what git answers *)

NoException == [type |-> "None"]

Message(text, arg) == [text |-> text, arg |-> arg]

\* An AbortError that is always given the default exit code
AbortError_default_code(message, cancelled, exit_code) ==
    [type |-> "AbortError", message |-> message, cancelled |-> cancelled,
     exit_code |-> 1]

\* AbortError.__init__ (exit_code is never 0 where the model constructs one)
AbortError(message, cancelled, exit_code) ==
    [type |-> "AbortError", message |-> message, cancelled |-> cancelled,
     exit_code |-> exit_code]

\* AbortError(cancelled=True): the message defaults to "Cancelled."
Cancelled == AbortError(Message("Cancelled.", <<>>), TRUE, 1)

Uncaught(type) == [type |-> type]

\* The text of a full commit hash and of its abbreviation (rev-parse --short,
\* and %h of git log)
FullText(h) == <<h, h>>
ShortText(h) == <<h>>
HeadText == <<"H", "E", "A", "D">>

\* What `git log --max-count=1 --format="%h %s"` prints for a commit, rstrip()ped
Summary(h) == ShortText(h) \o <<" ", "m", "s", "g">>

RefsHeads == <<"r", "e", "f", "s", "/", "h", "e", "a", "d", "s", "/">>
RefsTags == <<"r", "e", "f", "s", "/", "t", "a", "g", "s", "/">>

\* The refs `git for-each-ref --points-at` may list, in refname order
RefLines ==
    << [ref_type |-> "commit", name |-> RefsHeads \o <<"m">>],
       [ref_type |-> "commit", name |-> RefsHeads \o <<"n">>],
       [ref_type |-> "commit", name |-> RefsTags \o <<"t">>],
       [ref_type |-> "tag", name |-> RefsTags \o <<"u">>] >>

RECURSIVE Pick(_, _, _)
Pick(s, keep, i) ==
    IF i > Len(s) THEN <<>>
    ELSE (IF i \in keep THEN <<s[i]>> ELSE <<>>) \o Pick(s, keep, i + 1)

\* Every output of for-each-ref: some of the refs, sorted by name
RefOutputs == {Pick(RefLines, keep, 1) : keep \in SUBSET (1..Len(RefLines))}

\* git_names_for with its default arguments (local branches only)
RECURSIVE git_names_for(_)
git_names_for(ref_lines) ==
    IF ref_lines = <<>> THEN <<>>
    ELSE LET line == Head(ref_lines)
             commitish == remove_prefix(line.name, RefsHeads, <<>>)
         IN  (IF line.ref_type = "commit" /\ commitish # <<>>
                    /\ commitish[1] # <<>>
              THEN <<commitish[1]>> ELSE <<>>)
             \o git_names_for(Tail(ref_lines))

Command(cmd, arg, rc) == [cmd |-> cmd, arg |-> arg, rc |-> rc]

NoInstructions == [preamble |-> "", items |-> <<>>, columns |-> Unbounded]

\* The hashes of a list of nodes (git_prev_next.py:70)
hashes_of(heap, refs) == [i \in 1..Len(refs) |-> heap[refs[i]].commit_hash]

\* The edge sets taken the wrong way round: children for PREV
targets_of_swapped(heap, head_node, m) ==
    hashes_of(heap, IF m = PREV THEN heap[head_node].children
                    ELSE heap[head_node].parents)

\* git_prev_next.py:67-70
targets_of(heap, head_node, m) ==
    hashes_of(heap, IF m = PREV THEN heap[head_node].parents
                    ELSE heap[head_node].children)

-----------------------------------------------------------------------------
(* The run: main of git_prev_next.py under the entrypoint wrapper *)

\* No function of gitutils is called by itself
NoCall == [fn |-> None]

InitWith(start, first_call) ==
    /\ pc = start
    /\ mode \in {PREV, NEXT}
    /\ HEAD \in Commits
    /\ commands = <<>>
    /\ attach = FALSE
    /\ listing \in Listings
    /\ lines = <<>>
    /\ nodes = <<>>
    /\ commit_graph = EmptyDict
    /\ graph = <<>>
    /\ head_hash = None
    /\ target_hashes = <<>>
    /\ commit_descriptions = <<>>
    /\ selected_hash = None
    /\ local_branches = <<>>
    /\ selected_branch = <<>>
    /\ caller = None
    /\ choices = <<>>
    /\ default_index = <<>>
    /\ instructions = NoInstructions
    /\ selected_index = <<>>
    /\ pwc_caller = None
    /\ pwc_choices = <<>>
    /\ pwc_default = <<>>
    /\ invalid_handler = None
    /\ raw_response = <<>>
    /\ response = <<>>
    /\ stdout = <<>>
    /\ nread = 0
    /\ raised = NoException
    /\ retval = <<>>
    /\ exit_status = <<>>
    /\ stderr = <<>>
    /\ origin = <<>>
    /\ call = first_call

InitAt(start) == InitWith(start, NoCall)

Init == InitAt("options")

\* A wrapper that prints the message of every AbortError, a cancellation's
\* included.
exit_of_reporting_cancel(exception, value) ==
    IF exception = NoException
    THEN [status |-> IF value = <<>> THEN 0 ELSE value[1], err |-> <<>>]
    ELSE IF exception.type = "AbortError"
    THEN [status |-> exception.exit_code, err |-> <<exception.message>>]
    ELSE IF exception.type = "KeyboardInterrupt"
    THEN [status |-> 1, err |-> <<>>]
    ELSE IF exception.type = "SystemExit"
    THEN [status |-> exception.code, err |-> <<>>]
    ELSE [status |-> 1, err |-> <<Message("Traceback", <<exception.type>>)>>]

\* entrypoint's wrapper, gitutils.py:97-104: the exit status of the run and
\* what the wrapper prints on standard error, given how main ended.  An
\* exception the wrapper does not catch ends the interpreter with a traceback.
exit_of(exception, value) ==
    IF exception = NoException
    THEN [status |-> IF value = <<>> THEN 0 ELSE value[1], err |-> <<>>]
    ELSE IF exception.type = "AbortError"
    THEN [status |-> exception.exit_code,
          err |-> IF exception.cancelled THEN <<>> ELSE <<exception.message>>]
    ELSE IF exception.type = "KeyboardInterrupt"
    THEN [status |-> 1, err |-> <<>>]
    ELSE IF exception.type = "SystemExit"
    THEN [status |-> exception.code, err |-> <<>>]
    ELSE [status |-> 1, err |-> <<Message("Traceback", <<exception.type>>)>>]

\* main ends, by `exception` or by returning `value`, and the wrapper ends the
\* run; `printed` is what went to standard error just before.
Finish(exception, value, printed) ==
    /\ raised' = exception
    /\ retval' = value
    /\ LET e == exit_of(exception, value) IN
        /\ exit_status' = <<e.status>>
        /\ stderr' = stderr \o printed \o e.err
    /\ pc' = "exit"

Raise(e) == Finish(e, <<>>, <<>>)

\* git_prev_next.py:55-58 with get_option and get_git_config: the arguments
\* are parsed, and `attach` comes from --attach or from the configuration.
Options ==
    /\ pc = "options"
    /\ \/ /\ stdout' = Append(stdout, [ev |-> "help"])      \* -h
          /\ Raise([type |-> "SystemExit", code |-> 0])
          /\ UNCHANGED <<attach, commands, nread>>
       \/ /\ Finish([type |-> "SystemExit", code |-> 2],    \* a bad argument
                    <<>>, <<Message("usage", <<>>)>>)
          /\ UNCHANGED <<attach, commands, stdout, nread>>
       \/ /\ attach' = TRUE                                  \* --attach
          /\ pc' = "git_root"
          /\ UNCHANGED <<commands, endVars, stdout, nread>>
       \/ \E rc \in RetCodes, value \in {"true", "false"} :  \* no argument
             /\ rc # 0 => value = "false"
             /\ commands' = Append(commands,
                    Command(<<"config", "--type=bool">>, <<>>, rc))
             /\ IF rc = 0
                THEN attach' = (value = "true") /\ pc' = "git_root"
                                                /\ UNCHANGED endVars
                ELSE IF rc = 1
                THEN attach' = FALSE /\ pc' = "git_root" /\ UNCHANGED endVars
                ELSE /\ UNCHANGED attach
                     /\ Raise(AbortError(
                            Message("Failed to retrieve config option", <<>>),
                            FALSE, 1))
             /\ UNCHANGED <<stdout, nread>>
    /\ UNCHANGED <<mode, HEAD, graphVars, mainVars, pncVars, pwcVars>>
    /\ UNCHANGED auxVars

\* git_root (gitutils.py:653-662), called at git_prev_next.py:61
GitRoot ==
    /\ pc = "git_root"
    /\ \E rc \in RetCodes :
        /\ commands' = Append(commands,
               Command(<<"rev-parse", "--show-toplevel">>, <<>>, rc))
        /\ IF rc # 0
           THEN Raise(AbortError(
                    Message("Failed to determine the current git repository.",
                            <<>>), FALSE, rc))
           ELSE pc' = "rev_list" /\ UNCHANGED endVars
    /\ UNCHANGED <<mode, HEAD, attach, graphVars, mainVars, pncVars, pwcVars,
                   ioVars>>
    /\ UNCHANGED auxVars

\* git_commit_graph, gitutils.py:583-587: rev-list is run with check=True
RevList ==
    /\ pc = "rev_list"
    /\ \E rc \in RetCodes :
        /\ commands' = Append(commands,
               Command(<<"rev-list", "--children", "--all">>, <<>>, rc))
        /\ IF rc = 0
           THEN /\ lines' = line_order(listing)
                /\ pc' = "graph_loop"
                /\ UNCHANGED endVars
           ELSE /\ UNCHANGED lines
                /\ Raise(Uncaught("CalledProcessError"))
    /\ UNCHANGED <<mode, HEAD, attach, listing, nodes, commit_graph, graph,
                   mainVars, pncVars, pwcVars, ioVars>>
    /\ UNCHANGED auxVars

\* A loop that passes over a line without tokens instead of failing on it
GraphLine_skipping_blank ==
    /\ pc = "graph_loop"
    /\ lines # <<>>
    /\ LET line == Head(lines)
           g == IF line = <<>> THEN [heap |-> nodes, dict |-> commit_graph]
                ELSE process_line([heap |-> nodes, dict |-> commit_graph], line)
       IN  /\ nodes' = g.heap
           /\ commit_graph' = g.dict
           /\ lines' = Tail(lines)
    /\ UNCHANGED <<pc, envVars, listing, graph, mainVars, pncVars, pwcVars,
                   ioVars, endVars>>
    /\ UNCHANGED auxVars

\* git_commit_graph, gitutils.py:592-598: one iteration of the loop
GraphLine ==
    /\ pc = "graph_loop"
    /\ lines # <<>>
    /\ LET line == Head(lines) IN
        IF line = <<>>
        THEN \* (parent_hash, *children_hashes) = [] cannot be unpacked
             /\ Raise(Uncaught("ValueError"))
             /\ UNCHANGED <<lines, nodes, commit_graph>>
        ELSE LET g == process_line([heap |-> nodes, dict |-> commit_graph], line)
             IN  /\ nodes' = g.heap
                 /\ commit_graph' = g.dict
                 /\ lines' = Tail(lines)
                 /\ UNCHANGED <<endVars, pc>>
    /\ UNCHANGED <<envVars, listing, graph, mainVars, pncVars, pwcVars,
                   ioVars>>
    /\ UNCHANGED auxVars

\* git_commit_graph, gitutils.py:599: return commit_graph
GraphReturn ==
    /\ pc = "graph_loop"
    /\ lines = <<>>
    /\ graph' = <<commit_graph>>
    /\ pc' = "head"
    /\ UNCHANGED <<envVars, listing, lines, nodes, commit_graph, mainVars,
                   pncVars, pwcVars, ioVars, endVars>>
    /\ UNCHANGED auxVars

\* git_commit_hash("HEAD") (gitutils.py:504-527), at git_prev_next.py:64
ResolveHead ==
    /\ pc = "head"
    /\ \E rc \in RetCodes :
        /\ commands' = Append(commands,
               Command(<<"rev-parse", "--verify", "--quiet">>, HeadText, rc))
        /\ IF rc # 0
           THEN /\ Raise(AbortError(Message("No commit hash found for", HeadText),
                                    FALSE, rc))
                /\ UNCHANGED head_hash
           ELSE /\ head_hash' = HEAD
                /\ pc' = "targets"
                /\ UNCHANGED endVars
    /\ UNCHANGED <<mode, HEAD, attach, graphVars, target_hashes,
                   commit_descriptions, selected_hash, local_branches,
                   selected_branch, pncVars, pwcVars, ioVars>>
    /\ UNCHANGED auxVars

\* A main without the single-candidate shortcut of lines 78-79: one
\* candidate is described and handed to the prompt like several.
Targets_always_asking ==
    /\ pc = "targets"
    /\ IF head_hash \notin DOMAIN graph[1]
       THEN /\ Raise(Uncaught("AttributeError"))
            /\ UNCHANGED target_hashes
       ELSE LET hashes == targets_of(nodes, graph[1][head_hash], mode) IN
            /\ target_hashes' = hashes
            /\ UNCHANGED endVars
            /\ pc' = IF hashes = <<>> THEN "no_candidates" ELSE "describe"
    /\ UNCHANGED <<envVars, graphVars, head_hash, commit_descriptions,
                   selected_hash, local_branches, selected_branch, pncVars,
                   pwcVars, ioVars>>
    /\ UNCHANGED auxVars

\* git_prev_next.py:65-81: the candidates, and what to do with them
Targets ==
    /\ pc = "targets"
    /\ IF head_hash \notin DOMAIN graph[1]
       THEN \* commit_graph.get gave None: None has no `parents`
            /\ Raise(Uncaught("AttributeError"))
            /\ UNCHANGED <<target_hashes, selected_hash>>
       ELSE LET hashes == targets_of(nodes, graph[1][head_hash], mode) IN
            /\ target_hashes' = hashes
            /\ UNCHANGED endVars
            /\ IF hashes = <<>>
               THEN pc' = "no_candidates" /\ UNCHANGED selected_hash
               ELSE IF Len(hashes) = 1
               THEN pc' = "attach" /\ selected_hash' = hashes[1]
               ELSE pc' = "describe" /\ UNCHANGED selected_hash
    /\ UNCHANGED <<envVars, graphVars, head_hash, commit_descriptions,
                   local_branches, selected_branch, pncVars, pwcVars, ioVars>>
    /\ UNCHANGED auxVars

\* git_prev_next.py:73-76: the error main raises for an empty edge set;
\* AbortError's exit_code keeps its default, 1.
no_candidates_error(m, h) ==
    AbortError(Message(IF m = PREV THEN "Could not find a parent commit for"
                       ELSE "Could not find a child commit for",
                       ShortText(h)),
               FALSE, 1)

\* git_prev_next.py:71-76
NoCandidates ==
    /\ pc = "no_candidates"
    /\ \E rc \in RetCodes :
        /\ commands' = Append(commands,
               Command(<<"rev-parse", "--verify", "--short", "--quiet">>,
                       FullText(head_hash), rc))
        /\ IF rc # 0
           THEN Raise(AbortError(Message("No commit hash found for",
                                         FullText(head_hash)), FALSE, rc))
           ELSE Raise(no_candidates_error(mode, head_hash))
    /\ UNCHANGED <<mode, HEAD, attach, graphVars, mainVars, pncVars, pwcVars,
                   ioVars>>
    /\ UNCHANGED auxVars

\* prompt_for_hash, git_prev_next.py:23-36: one summarize_git_commit call
\* (gitutils.py:530-553); after the last one prompt_with_numbered_choices
\* is called.
Describe ==
    /\ pc = "describe"
    /\ LET commit_hash == target_hashes[Len(commit_descriptions) + 1] IN
       \E rc \in RetCodes :
        /\ commands' = Append(commands,
               Command(<<"log", "--max-count=1", "--format=%h %s">>,
                       FullText(commit_hash), rc))
        /\ IF rc # 0
           THEN /\ Raise(AbortError(Message("Failed to summarize",
                                            FullText(commit_hash)), FALSE, rc))
                /\ UNCHANGED <<commit_descriptions, caller, choices,
                               default_index>>
           ELSE LET descriptions == Append(commit_descriptions,
                                           Summary(commit_hash)) IN
                /\ commit_descriptions' = descriptions
                /\ UNCHANGED endVars
                /\ IF Len(descriptions) < Len(target_hashes)
                   THEN UNCHANGED <<pc, caller, choices, default_index>>
                   ELSE /\ pc' = "pnc"
                        /\ caller' = "prompt_for_hash"
                        /\ choices' = descriptions
                        /\ default_index' = <<>>
    /\ UNCHANGED <<mode, HEAD, attach, graphVars, head_hash, target_hashes,
                   selected_hash, local_branches, selected_branch,
                   instructions, selected_index, pwcVars, ioVars>>
    /\ UNCHANGED auxVars

\* Where prompt_with_numbered_choices returns to
return_pc(c) ==
    CASE c = "prompt_for_hash" -> "pfh_return"
      [] c = "prompt_for_branch" -> "pfb_return"
      [] OTHER -> "returned"

Preamble(c) ==
    CASE c = "prompt_for_hash" ->
            IF mode = PREV THEN "There are multiple parents:"
            ELSE "There are multiple children:"
      [] c = "prompt_for_branch" -> "has multiple local branches"
      [] OTHER -> ""

\* Early return for a single choice only: an empty list goes to the prompt
early_return_without_sentinel(choice_list) ==
    IF Len(choice_list) = 1 THEN [returns |-> TRUE, index |-> <<0>>]
    ELSE [returns |-> FALSE, index |-> <<>>]

\* Early return for an empty list only: a single choice goes to the prompt
early_return_without_bypass(choice_list) ==
    IF choice_list = <<>> THEN [returns |-> TRUE, index |-> <<>>]
    ELSE [returns |-> FALSE, index |-> <<>>]

\* prompt_with_numbered_choices, gitutils.py:370-376: the calls that return
\* before anything is printed or read
early_return(choice_list) ==
    IF choice_list = <<>> THEN [returns |-> TRUE, index |-> <<>>]
    ELSE IF Len(choice_list) = 1 THEN [returns |-> TRUE, index |-> <<0>>]
    ELSE [returns |-> FALSE, index |-> <<>>]

\* prompt_with_numbered_choices, gitutils.py:370-393: up to the first call
\* of prompt_with_choices.  `widths` are the terminal widths to consider.
PromptNumbered(widths) ==
    /\ pc = "pnc"
    /\ IF early_return(choices).returns
       THEN /\ selected_index' = early_return(choices).index
            /\ pc' = return_pc(caller)
            /\ UNCHANGED <<instructions, pwcVars, stdout, endVars>>
       ELSE IF default_index # <<>>
               /\ ~(0 <= default_index[1] /\ default_index[1] < Len(choices))
       THEN /\ Raise(Uncaught("AssertionError"))
            /\ UNCHANGED <<instructions, selected_index, pwcVars, stdout>>
       ELSE \E columns \in widths :
            LET width == max_length(columns) IN
            IF ~ellipsize_precondition(width)
            THEN /\ Raise(Uncaught("AssertionError"))
                 /\ UNCHANGED <<instructions, selected_index, pwcVars, stdout>>
            ELSE /\ instructions' = [preamble |-> Preamble(caller),
                                     items |-> item_lines(choices, width),
                                     columns |-> columns]
                 /\ stdout' = Append(stdout, [ev |-> "instructions"])
                 /\ pwc_caller' = "numbered"
                 /\ pwc_choices' = allowed_inputs(Len(choices))
                 /\ pwc_default' = (IF default_index = <<>> THEN <<>>
                                    ELSE <<str(default_index[1] + 1)>>)
                 /\ invalid_handler' = "numbered"
                 /\ pc' = "pwc"
                 /\ UNCHANGED <<selected_index, raw_response, response, endVars>>
    /\ UNCHANGED <<envVars, graphVars, mainVars, caller, choices,
                   default_index, nread>>
    /\ UNCHANGED auxVars

\* Where prompt_with_choices returns to
pwc_return_pc(c) == IF c = "numbered" THEN "pnc_response" ELSE "returned"

\* prompt_with_choices, gitutils.py:320:
\* invalid_handler = invalid_handler or default_invalid_handler
effective_handler(handler) ==
    IF handler = None THEN "default_invalid_handler" ELSE handler

\* prompt_with_choices, gitutils.py:297-320: before the loop
PromptChoices ==
    /\ pc = "pwc"
    /\ IF pwc_choices = <<>>
       THEN /\ response' = <<>>
            /\ pc' = pwc_return_pc(pwc_caller)
            /\ UNCHANGED <<pwc_default, invalid_handler, endVars>>
       ELSE IF pwc_default # <<>>
               /\ normalize_choice_str(pwc_default[1])
                     \notin table_keys(pwc_choices)
       THEN /\ Raise(Uncaught("AssertionError"))
            /\ UNCHANGED <<pwc_default, invalid_handler, response>>
       ELSE /\ pwc_default' = (IF pwc_default = <<>> THEN <<>>
                               ELSE <<normalize_choice_str(pwc_default[1])>>)
            /\ invalid_handler' = effective_handler(invalid_handler)
            /\ pc' = "pwc_input"
            /\ UNCHANGED <<response, endVars>>
    /\ UNCHANGED <<envVars, graphVars, mainVars, pncVars, pwc_caller,
                   pwc_choices, raw_response, ioVars>>
    /\ UNCHANGED auxVars

\* An answer that takes no blank line, with or without a default
answer_requiring_input(choices_, default, raw) ==
    LET normalized_response == normalize_choice_str(raw)
        table == choices_table(choices_)
    IN  IF normalized_response \in DOMAIN table
        THEN <<table[normalized_response]>>
        ELSE <<>>

\* The answer of prompt_with_choices to one line: <<>> when it asks again
answer(choices_, default, raw) ==
    LET normalized_response == normalize_choice_str(raw)
        table == choices_table(choices_)
    IN  IF normalized_response = <<>>
        THEN IF default = <<>> THEN <<>> ELSE <<table[default[1]]>>
        ELSE IF normalized_response \in DOMAIN table
             THEN <<table[normalized_response]>>
             ELSE <<>>

\* A diagnostic for every line, the blank ones included
diagnostic_for_any_line(raw, handler) ==
    <<[ev |-> "invalid", by |-> handler], [ev |-> "newline"]>>

\* What prompt_with_choices prints for a line it does not return on
diagnostic(raw, handler) ==
    IF normalize_choice_str(raw) = <<>> THEN <<>>
    ELSE <<[ev |-> "invalid", by |-> handler], [ev |-> "newline"]>>

\* The loop without its handler of EOFError
ReadInput_raising_eof(input_lines) ==
    /\ pc = "pwc_input"
    /\ \/ \E line \in input_lines :
             /\ nread < MaxInput
             /\ nread' = nread + 1
             /\ raw_response' = <<line>>
             /\ LET found == answer(pwc_choices, pwc_default, line) IN
                IF found # <<>>
                THEN /\ stdout' = Append(stdout, [ev |-> "prompt"])
                     /\ response' = found
                     /\ pc' = pwc_return_pc(pwc_caller)
                ELSE /\ stdout' = Append(stdout, [ev |-> "prompt"])
                                   \o diagnostic(line, invalid_handler)
                     /\ UNCHANGED <<response, pc>>
             /\ UNCHANGED endVars
       \/ /\ stdout' = Append(stdout, [ev |-> "prompt"])
          /\ Raise(Uncaught("EOFError"))
          /\ UNCHANGED <<raw_response, response, nread>>
    /\ UNCHANGED <<envVars, graphVars, mainVars, pncVars, pwc_caller,
                   pwc_choices, pwc_default, invalid_handler>>
    /\ UNCHANGED auxVars

\* prompt_with_choices, gitutils.py:322-340: one iteration of the loop,
\* input(prompt) and the lookup of the line.  `input_lines` are the lines a
\* user may enter; standard input holds at most MaxInput lines and may end
\* sooner.
ReadInput(input_lines) ==
    /\ pc = "pwc_input"
    /\ \/ \E line \in input_lines :
             /\ nread < MaxInput
             /\ nread' = nread + 1
             /\ raw_response' = <<line>>
             /\ LET found == answer(pwc_choices, pwc_default, line) IN
                IF found # <<>>
                THEN /\ stdout' = Append(stdout, [ev |-> "prompt"])
                     /\ response' = found
                     /\ pc' = pwc_return_pc(pwc_caller)
                ELSE /\ stdout' = Append(stdout, [ev |-> "prompt"])
                                   \o diagnostic(line, invalid_handler)
                     /\ UNCHANGED <<response, pc>>
       \/ /\ stdout' = stdout \o <<[ev |-> "prompt"], [ev |-> "newline"]>>
          /\ response' = <<>>                      \* EOFError
          /\ pc' = pwc_return_pc(pwc_caller)
          /\ UNCHANGED <<raw_response, nread>>
    /\ UNCHANGED <<envVars, graphVars, mainVars, pncVars, pwc_caller,
                   pwc_choices, pwc_default, invalid_handler, endVars>>
    /\ UNCHANGED auxVars

\* A request for help taken as the end of the prompt
on_response_help_returns(resp, max_choice) ==
    IF resp = <<>> \/ resp = <<QuitChoice[1]>> \/ resp = <<HelpChoice[1]>>
    THEN [do |-> "return", index |-> <<>>]
    ELSE [do |-> "return", index |-> <<int(resp[1]) - 1>>]

\* "q" taken for the first item
on_response_quit_selects_first(resp, max_choice) ==
    IF resp = <<>> THEN [do |-> "return", index |-> <<>>]
    ELSE IF resp = <<QuitChoice[1]>> THEN [do |-> "return", index |-> <<0>>]
    ELSE IF resp = <<HelpChoice[1]>> THEN [do |-> "help", index |-> <<>>]
    ELSE [do |-> "return", index |-> <<int(resp[1]) - 1>>]

\* "q" taken for a request to show the list again
on_response_quit_asks_again(resp, max_choice) ==
    IF resp = <<>> THEN [do |-> "return", index |-> <<>>]
    ELSE IF resp = <<QuitChoice[1]>> \/ resp = <<HelpChoice[1]>>
    THEN [do |-> "help", index |-> <<>>]
    ELSE [do |-> "return", index |-> <<int(resp[1]) - 1>>]

\* The numeral taken as the index itself
on_response_one_based(resp, max_choice) ==
    IF resp = <<>> \/ resp = <<QuitChoice[1]>> THEN [do |-> "return", index |-> <<>>]
    ELSE IF resp = <<HelpChoice[1]>> THEN [do |-> "help", index |-> <<>>]
    ELSE [do |-> "return", index |-> <<int(resp[1])>>]

\* prompt_with_numbered_choices, gitutils.py:411-421: what it does with the
\* response: <<"return", index>> or <<"help">>
on_response(resp, max_choice) ==
    IF resp = <<>> \/ resp = <<QuitChoice[1]>> THEN [do |-> "return", index |-> <<>>]
    ELSE IF resp = <<HelpChoice[1]>> THEN [do |-> "help", index |-> <<>>]
    ELSE [do |-> "return", index |-> <<int(resp[1]) - 1>>]

\* prompt_with_numbered_choices, gitutils.py:411-421
NumberedResponse ==
    /\ pc = "pnc_response"
    /\ LET r == on_response(response, Len(choices)) IN
       IF r.do = "help"
       THEN /\ stdout' = stdout \o <<[ev |-> "newline"], [ev |-> "instructions"]>>
            /\ pc' = "pwc"
            /\ raw_response' = <<>>
            /\ response' = <<>>
            /\ UNCHANGED <<selected_index, instructions, pwc_caller,
                           pwc_choices, pwc_default, invalid_handler, endVars>>
       ELSE IF r.index # <<>>
               /\ ~(1 <= r.index[1] + 1 /\ r.index[1] + 1 <= Len(choices))
       THEN /\ Raise(Uncaught("AssertionError"))
            /\ UNCHANGED <<selected_index, instructions, pwcVars, stdout>>
       ELSE /\ selected_index' = r.index
            /\ pc' = return_pc(caller)
            /\ instructions' = NoInstructions
            /\ pwc_caller' = None
            /\ pwc_choices' = <<>>
            /\ pwc_default' = <<>>
            /\ invalid_handler' = None
            /\ raw_response' = <<>>
            /\ response' = <<>>
            /\ UNCHANGED <<stdout, endVars>>
    /\ UNCHANGED <<envVars, graphVars, mainVars, caller, choices,
                   default_index, nread>>
    /\ UNCHANGED auxVars

\* The list indexed from its end
chosen_hash_from_end(commit_hashes, index) ==
    commit_hashes[Len(commit_hashes) - index]

\* git_prev_next.py:39: commit_hashes[selected_index]
chosen_hash(commit_hashes, index) == commit_hashes[index + 1]

\* prompt_for_hash, git_prev_next.py:37-39, and main's line 81
HashChosen ==
    /\ pc = "pfh_return"
    /\ IF selected_index = <<>>
       THEN Raise(Cancelled) /\ UNCHANGED selected_hash
       ELSE /\ selected_hash' = chosen_hash(target_hashes, selected_index[1])
            /\ pc' = "attach"
            /\ UNCHANGED endVars
    /\ caller' = None
    /\ choices' = <<>>
    /\ selected_index' = <<>>
    /\ UNCHANGED <<envVars, graphVars, head_hash, target_hashes,
                   commit_descriptions, local_branches, selected_branch,
                   default_index, instructions, pwcVars, ioVars>>
    /\ UNCHANGED auxVars

\* git_prev_next.py:83-88 with git_names_for (gitutils.py:618-650) and the
\* first lines of prompt_for_branch (gitutils.py:430-432)
Attach ==
    /\ pc = "attach"
    /\ IF ~attach
       THEN /\ pc' = "checkout"
            /\ UNCHANGED <<commands, local_branches, selected_branch, endVars>>
       ELSE \E rc \in RetCodes, ref_lines \in RefOutputs :
            /\ rc # 0 => ref_lines = <<>>
            /\ commands' = Append(commands,
                   Command(<<"for-each-ref", "--points-at">>,
                           FullText(selected_hash), rc))
            /\ IF rc # 0
               THEN /\ Raise(Uncaught("CalledProcessError"))
                    /\ UNCHANGED <<local_branches, selected_branch>>
               ELSE LET names == git_names_for(ref_lines) IN
                    /\ local_branches' = names
                    /\ UNCHANGED endVars
                    /\ IF names = <<>>
                       THEN pc' = "checkout" /\ UNCHANGED selected_branch
                       ELSE IF Len(names) = 1
                       THEN pc' = "checkout" /\ selected_branch' = <<names[1]>>
                       ELSE pc' = "pfb_short" /\ UNCHANGED selected_branch
    /\ UNCHANGED <<mode, HEAD, attach, graphVars, head_hash, target_hashes,
                   commit_descriptions, selected_hash, pncVars, pwcVars,
                   ioVars>>
    /\ UNCHANGED auxVars

\* prompt_for_branch, gitutils.py:434-440
BranchPrompt ==
    /\ pc = "pfb_short"
    /\ \E rc \in RetCodes :
        /\ commands' = Append(commands,
               Command(<<"rev-parse", "--verify", "--short", "--quiet">>,
                       FullText(selected_hash), rc))
        /\ IF rc # 0
           THEN /\ Raise(AbortError(Message("No commit hash found for",
                                            FullText(selected_hash)), FALSE, rc))
                /\ UNCHANGED <<caller, choices, default_index>>
           ELSE /\ pc' = "pnc"
                /\ caller' = "prompt_for_branch"
                /\ choices' = local_branches
                /\ default_index' = <<>>
                /\ UNCHANGED endVars
    /\ UNCHANGED <<mode, HEAD, attach, graphVars, mainVars, instructions,
                   selected_index, pwcVars, ioVars>>
    /\ UNCHANGED auxVars

\* prompt_for_branch, gitutils.py:441-443
BranchChosen ==
    /\ pc = "pfb_return"
    /\ IF selected_index = <<>>
       THEN Raise(Cancelled) /\ UNCHANGED selected_branch
       ELSE /\ selected_branch' = <<local_branches[selected_index[1] + 1]>>
            /\ pc' = "checkout"
            /\ UNCHANGED endVars
    /\ caller' = None
    /\ choices' = <<>>
    /\ selected_index' = <<>>
    /\ UNCHANGED <<envVars, graphVars, head_hash, target_hashes,
                   commit_descriptions, selected_hash, local_branches,
                   default_index, instructions, pwcVars, ioVars>>
    /\ UNCHANGED auxVars

\* git_prev_next.py:90-94
checkout_command(branch, hash, rc) ==
    IF branch # <<>> /\ branch[1] # <<>>
    THEN Command(<<"checkout">>, branch[1], rc)
    ELSE Command(<<"checkout", "--detach">>, FullText(hash), rc)

\* A main that tries a failed checkout a second time
Checkout_retrying ==
    /\ pc = "checkout"
    /\ \E rc \in RetCodes :
        /\ commands' = Append(commands,
               checkout_command(selected_branch, selected_hash, rc))
        /\ HEAD' = IF rc = 0 THEN selected_hash ELSE HEAD
        /\ IF rc # 0 /\ commands[Len(commands)].cmd[1] # "checkout"
           THEN UNCHANGED <<pc, endVars>>
           ELSE Finish(NoException, <<rc>>, <<>>)
    /\ UNCHANGED <<mode, attach, graphVars, mainVars, pncVars, pwcVars,
                   ioVars>>
    /\ UNCHANGED auxVars

\* git_prev_next.py:90-95: the checkout, whose return code main returns.
\* A checkout that succeeds moves the repository to the commit.
Checkout ==
    /\ pc = "checkout"
    /\ \E rc \in RetCodes :
        /\ commands' = Append(commands,
               checkout_command(selected_branch, selected_hash, rc))
        /\ HEAD' = IF rc = 0 THEN selected_hash ELSE HEAD
        /\ Finish(NoException, <<rc>>, <<>>)
    /\ UNCHANGED <<mode, attach, graphVars, mainVars, pncVars, pwcVars,
                   ioVars>>
    /\ UNCHANGED auxVars

\* The terminal widths and the input lines of a navigation run: no terminal
\* and the narrowest terminal; a number, a padded number, quit, help and an
\* invalid word.
NavWidths == {Unbounded, Columns(1)}
NavLines == { <<"1">>, <<" ", "2", "\t">>, <<"Q">>, <<"?">>, <<"x">> }

Next ==
    \/ Options
    \/ GitRoot
    \/ RevList
    \/ GraphLine
    \/ GraphReturn
    \/ ResolveHead
    \/ Targets
    \/ NoCandidates
    \/ Describe
    \/ PromptNumbered(NavWidths)
    \/ PromptChoices
    \/ ReadInput(NavLines)
    \/ NumberedResponse
    \/ HashChosen
    \/ Attach
    \/ BranchPrompt
    \/ BranchChosen
    \/ Checkout

Spec == Init /\ [][Next]_vars

\* git_commit_graph called on its own, as the tests call it
InitGraph ==
    /\ InitAt("rev_list")
    /\ mode = PREV
    /\ HEAD = CommitSeq[1]

NextGraph ==
    \/ RevList
    \/ GraphLine
    \/ GraphReturn

SpecGraph == InitGraph /\ [][NextGraph]_vars

-----------------------------------------------------------------------------
(* The prompts of gitutils called directly, as a script or a test calls them *)

\* The choices of a numbered prompt: the first n of these labels
PromptLabels == [i \in 1..Len(CommitSeq) |-> Summary(CommitSeq[i])]

\* default_index of a numbered prompt: none, valid ones, and one past the
\* end of every list
PromptDefaults == {<<>>, <<0>>, <<1>>, <<3>>}

\* choices of prompt_with_choices: tuples of spellings, the first of every
\* tuple being the canonical one
YesNo == << << <<"Y", "e", "s">>, <<"y">> >>, << <<"N", "o">>, <<"n">> >> >>
YesYep == << << <<"Y", "e", "s">>, <<"y">> >>,
             << <<"Y", "e", "p">>, <<"y">> >> >>
ChoiceLists == {<<>>, YesNo, YesYep}

\* default of prompt_with_choices: none, spellings in any casing, and one
\* that is no spelling of a choice
ChoiceDefaults == {<<>>, << <<" ", "N", "O">> >>, << <<"y">> >>, << <<"x">> >>}

\* invalid_handler of prompt_with_choices: absent or the caller's own
ChoiceHandlers == {None, "custom"}

\* Terminal widths and input lines of the direct calls
PromptWidths ==
    {Unbounded} \cup {Columns(n) : n \in {1, 2, 3, 4, 7, 10, 11}}
PromptLines ==
    { <<"1">>, <<" ", "2", "\t">>, <<"3">>, <<"4">>, <<"Q">>, <<"?">>, <<"x">>,
      <<>>, <<" ">>, <<"y">>, <<" ", "Y", "E", "S", "\t">>, <<"n">>,
      <<"h">>, <<" ", "H", "e", "l", "p">>, <<"q", "u", "i", "t">>,
      <<"Q", "U", "I", "T", " ">> }

\* A call of prompt_with_numbered_choices(choices, default_index=...)
CallNumbered ==
    /\ pc = "call"
    /\ \E n \in 0..Len(PromptLabels), d \in PromptDefaults :
          /\ caller' = "direct"
          /\ choices' = SubSeq(PromptLabels, 1, n)
          /\ default_index' = d
    /\ pc' = "pnc"
    /\ UNCHANGED <<envVars, graphVars, mainVars, instructions, selected_index,
                   pwcVars, ioVars, endVars>>
    /\ UNCHANGED auxVars

\* A call of prompt_with_choices(choices, default=..., invalid_handler=...)
CallChoices ==
    /\ pc = "call"
    /\ \E choice_list \in ChoiceLists, default \in ChoiceDefaults,
          handler \in ChoiceHandlers :
          /\ pwc_caller' = "direct"
          /\ pwc_choices' = choice_list
          /\ pwc_default' = default
          /\ invalid_handler' = handler
    /\ pc' = "pwc"
    /\ UNCHANGED <<envVars, graphVars, mainVars, pncVars, raw_response,
                   response, ioVars, endVars>>
    /\ UNCHANGED auxVars

InitPrompt ==
    /\ InitAt("call")
    /\ mode = PREV
    /\ HEAD = CommitSeq[1]
    /\ listing = <<>>

NextPrompt ==
    \/ CallNumbered
    \/ CallChoices
    \/ PromptNumbered(PromptWidths)
    \/ PromptChoices
    \/ ReadInput(PromptLines)
    \/ NumberedResponse

SpecPrompt == InitPrompt /\ [][NextPrompt]_vars

\* The step of ReadInput in which input(prompt) finds the input at an end
EndOfInput == nread' = nread /\ ReadInput(PromptLines)

\* The prompts with progress: the code between two reads runs on, and a
\* prompt that keeps waiting for its input is in the end answered by the
\* end of the input, if no line lets it return before
SpecPromptFair ==
    /\ SpecPrompt
    /\ WF_vars(PromptChoices)
    /\ WF_vars(NumberedResponse)
    /\ WF_vars(EndOfInput)

-----------------------------------------------------------------------------
(* Properties of git_commit_graph *)

\* The commit ids of a listing, and those that lead one of its lines
ids_of(ls) == UNION { { ls[i][k] : k \in 1..Len(ls[i]) } : i \in 1..Len(ls) }
leaders_of(ls) == { ls[i][1] : i \in { n \in 1..Len(ls) : ls[n] # <<>> } }

\* How many times commit M is listed as a child on a line
child_occurrences(M, line) ==
    Cardinality({ k \in 2..Len(line) : line[k] = M })

\* The node the returned graph holds for a commit id
node_of(h) == nodes[graph[1][h]]

\* C1: graph symmetry.  At every point of the construction, and so in every
\* returned graph, for every pair of nodes p and c: c is in p.children if and
\* only if p is in c.parents.
C1_GraphSymmetry ==
    \A p, c \in 1..Len(nodes) :
        (\E i \in 1..Len(nodes[p].children) : nodes[p].children[i] = c)
        <=> (\E j \in 1..Len(nodes[c].parents) : nodes[c].parents[j] = p)

\* A graph was returned in which some commit has two parents.
C1_Witness ==
    /\ graph # <<>>
    /\ \E c \in 1..Len(nodes) : Len(nodes[c].parents) >= 2

\* C2: parent order.  The lines are processed last to first, so when M is
\* listed as a child once on line j and once on an earlier line i of the
\* output, and nowhere else, then in the returned graph M.parents is
\* [P1, P2] with P1 the parent of line j (processed first) and P2 that of
\* line i.
C2_ParentOrder ==
    graph # <<>> =>
        \A i, j \in 1..Len(listing) : \A M \in Commits :
            ( /\ i < j
              /\ \A n \in 1..Len(listing) :
                    child_occurrences(M, listing[n])
                        = (IF n \in {i, j} THEN 1 ELSE 0) )
            => hashes_of(nodes, node_of(M).parents)
                   = <<listing[j][1], listing[i][1]>>

\* A graph was returned for a listing where two different parents list the
\* same child.
C2_Witness ==
    /\ graph # <<>>
    /\ \E i, j \in 1..Len(listing) : \E M \in Commits :
          /\ i < j
          /\ listing[i][1] # listing[j][1]
          /\ child_occurrences(M, listing[i]) = 1
          /\ child_occurrences(M, listing[j]) = 1
          /\ Len(node_of(M).parents) = 2

\* C3: children order.  For every line P c1 ... cn whose parent id P leads
\* exactly one line, the node of P in the returned graph has children
\* [c1, ..., cn], in the order of the line.
C3_ChildrenOrder ==
    graph # <<>> =>
        \A i \in 1..Len(listing) :
            (\A n \in 1..Len(listing) : listing[n][1] = listing[i][1] => n = i)
            => hashes_of(nodes, node_of(listing[i][1]).children)
                   = Tail(listing[i])

\* A graph was returned for a listing with a line of two different children
\* whose parent leads no other line.
C3_Witness ==
    /\ graph # <<>>
    /\ \E i \in 1..Len(listing) :
          /\ Len(listing[i]) >= 3
          /\ listing[i][2] # listing[i][3]
          /\ \A n \in 1..Len(listing) : listing[n][1] = listing[i][1] => n = i

\* The returned map: one entry, and one node, for each id of the listing
node_set_returned ==
    graph # <<>> =>
        /\ DOMAIN graph[1] = ids_of(listing)
        /\ Len(nodes) = Cardinality(ids_of(listing))
        /\ \A h, k \in DOMAIN graph[1] : graph[1][h] = graph[1][k] => h = k
        /\ \A h \in DOMAIN graph[1] :
              /\ graph[1][h] \in 1..Len(nodes)
              /\ node_of(h).commit_hash = h
              /\ h \notin leaders_of(listing) => node_of(h).children = <<>>

\* A step of the construction keeps every entry and the node it refers to
entries_kept ==
    \A h \in DOMAIN commit_graph :
        /\ h \in DOMAIN commit_graph'
        /\ commit_graph'[h] = commit_graph[h]
        /\ nodes'[commit_graph[h]].commit_hash = nodes[commit_graph[h]].commit_hash

\* C4: node set.  The returned map has exactly one entry for each distinct
\* commit id of the listing, parent or child; each entry's node carries the
\* id it is keyed by; no entry is removed or replaced during construction;
\* and an id that never leads a line has a node with empty children.
C4_NodeSet == [] node_set_returned /\ [][entries_kept]_vars

\* A graph was returned for a listing that repeats an id and has an id that
\* is only ever a child.
C4_Witness ==
    /\ graph # <<>>
    /\ Cardinality(ids_of(listing)) >= 2
    /\ Cardinality(ids_of(listing)) < SumSeq([i \in 1..Len(listing) |-> Len(listing[i])])
    /\ ids_of(listing) \ leaders_of(listing) # {}

-----------------------------------------------------------------------------
(* Properties of a navigation run *)

\* The positions in the log of the commands with a given first word
issued(name) == { i \in 1..Len(commands) : commands[i].cmd[1] = name }

\* The positions in the output where a prompt or its instructions appear
prompt_events ==
    { i \in 1..Len(stdout) : stdout[i].ev \in {"instructions", "prompt"} }

blank_line_in(ls) == \E i \in 1..Len(ls) : ls[i] = <<>>

\* The current position is resolved to a node of the graph
at_node ==
    /\ graph # <<>>
    /\ head_hash # None
    /\ head_hash \in DOMAIN graph[1]

\* The edge set of the current node for the requested direction
edge_set ==
    IF mode = PREV THEN node_of(head_hash).parents
    ELSE node_of(head_hash).children

\* C5: a malformed listing is fatal.  If a line of the listing has no token,
\* git_commit_graph returns no graph: once rev-list has delivered the
\* listing the loop can only end on the ValueError of such a line, which
\* ends the run with status 1; no position is resolved, no prompt is shown,
\* no input is read and no checkout is issued.
C5_MalformedListingFatal ==
    blank_line_in(listing) =>
        /\ graph = <<>>
        /\ head_hash = None
        /\ target_hashes = <<>>
        /\ prompt_events = {}
        /\ nread = 0
        /\ issued("checkout") = {}
        /\ pc = "graph_loop" => blank_line_in(lines)
        /\ (\E i \in issued("rev-list") : commands[i].rc = 0) =>
              /\ pc \in {"graph_loop", "exit"}
              /\ pc = "exit" => /\ raised = Uncaught("ValueError")
                                /\ exit_status = <<1>>

\* A run failed on a blank line after it had put nodes in the graph.
C5_Witness ==
    /\ pc = "exit"
    /\ raised = Uncaught("ValueError")
    /\ blank_line_in(listing)
    /\ nodes # <<>>

no_candidates_message ==
    Message(IF mode = PREV THEN "Could not find a parent commit for"
            ELSE "Could not find a child commit for",
            ShortText(head_hash))

\* C6 as stated: when the current node has no parents (PREV) or no children
\* (NEXT), no prompt is shown, no checkout is issued, and the run ends with
\* an AbortError that is no cancellation, whose message names the short id
\* of the current commit and the direction, with a non-zero exit status.
C6_AsStated ==
    (at_node /\ edge_set = <<>>) =>
        /\ prompt_events = {}
        /\ nread = 0
        /\ issued("checkout") = {}
        /\ pc = "exit" => /\ raised.type = "AbortError"
                          /\ ~raised.cancelled
                          /\ raised.message = no_candidates_message
                          /\ exit_status[1] # 0

\* C6: with an empty edge set no prompt is shown, no checkout is issued and
\* the run ends with an AbortError that is no cancellation and has a
\* non-zero exit status.  Its message names the short id of the current
\* commit and the direction (exit status 1) when the lookup of the short id
\* succeeds; when that lookup fails with code r the error is the lookup's
\* own, with exit status r.
C6_NoCandidates ==
    (at_node /\ edge_set = <<>>) =>
        /\ prompt_events = {}
        /\ nread = 0
        /\ issued("checkout") = {}
        /\ pc = "exit" =>
              LET lookup == commands[Len(commands)] IN
              /\ lookup.cmd = <<"rev-parse", "--verify", "--short", "--quiet">>
              /\ lookup.arg = FullText(head_hash)
              /\ raised.type = "AbortError"
              /\ ~raised.cancelled
              /\ exit_status = <<raised.exit_code>>
              /\ exit_status[1] # 0
              /\ IF lookup.rc = 0
                 THEN /\ raised.message = no_candidates_message
                      /\ raised.exit_code = 1
                 ELSE /\ raised.message = Message("No commit hash found for",
                                                  FullText(head_hash))
                      /\ raised.exit_code = lookup.rc

\* A run ended in NoCandidates going forward from a commit that has a parent.
C6_Witness ==
    /\ pc = "exit"
    /\ at_node
    /\ mode = NEXT
    /\ edge_set = <<>>
    /\ node_of(head_hash).parents # <<>>
    /\ raised.type = "AbortError"
    /\ raised.message = no_candidates_message

\* C7: a single candidate.  When the edge set has exactly one element, that
\* element is the target once main has looked at the set; no describe call
\* is made, the candidate prompt is never entered, and up to the point where
\* the target is established (and to the end of the run without --attach)
\* nothing is prompted and no input is read.
C7_SingleCandidate ==
    (at_node /\ Len(edge_set) = 1 /\ pc # "targets") =>
        /\ target_hashes = hashes_of(nodes, edge_set)
        /\ selected_hash = target_hashes[1]
        /\ issued("log") = {}
        /\ commit_descriptions = <<>>
        /\ caller # "prompt_for_hash"
        /\ (pc = "attach" \/ ~attach) => (prompt_events = {} /\ nread = 0)

\* A run with one candidate checked it out.
C7_Witness ==
    /\ pc = "exit"
    /\ at_node
    /\ Len(edge_set) = 1
    /\ issued("checkout") # {}
    /\ retval = <<0>>
    /\ HEAD = target_hashes[1]

\* The candidate prompt's treatment of a line that is the numeral of k
numeral_selects ==
    \A k \in 1..Len(target_hashes) :
        ( /\ pc = "pnc_response"
          /\ caller = "prompt_for_hash"
          /\ response # <<>>
          /\ strip(raw_response[1]) = str(k) )
        => /\ pc' = "pfh_return"
           /\ selected_index' = <<k - 1>>

\* prompt_for_hash's use of the index the prompt returned
index_selects ==
    (pc = "pfh_return" /\ selected_index # <<>>)
    => /\ pc' = "attach"
       /\ at_node
       /\ Len(edge_set) >= 2
       /\ selected_hash' = nodes[edge_set[selected_index[1] + 1]].commit_hash

\* The target, and the checkout of it, are taken from the edge set
target_in_edge_set ==
    /\ selected_hash # None =>
          /\ at_node
          /\ \E i \in 1..Len(edge_set) :
                selected_hash = nodes[edge_set[i]].commit_hash
    /\ \A i \in issued("checkout") :
          \/ commands[i] = Command(<<"checkout", "--detach">>,
                                   FullText(selected_hash), commands[i].rc)
          \/ /\ attach
             /\ \E b \in 1..Len(local_branches) :
                   commands[i] = Command(<<"checkout">>, local_branches[b],
                                         commands[i].rc)

\* C8: several candidates.  When the edge set has N >= 2 elements and the
\* user enters the number k, 1 <= k <= N, the prompt returns k - 1 and the
\* target is the k-th element of the current node's parents (PREV) or
\* children (NEXT), in the order of that list; the target is always an
\* element of the edge set, and the checkout is of the target (or, under
\* --attach, of a local branch that points at it).
C8_MultipleCandidates ==
    [] target_in_edge_set /\ [][numeral_selects /\ index_selects]_vars

\* The second of two different candidates was chosen and checked out.
C8_Witness ==
    /\ pc = "exit"
    /\ at_node
    /\ Len(edge_set) >= 2
    /\ nodes[edge_set[1]].commit_hash # nodes[edge_set[2]].commit_hash
    /\ selected_hash = nodes[edge_set[2]].commit_hash
    /\ retval = <<0>>
    /\ HEAD = selected_hash

\* The target has been established: the state Resolved(next)
resolved_next == selected_hash # None

\* What holds of a checkout that was requested: it is the last command of a
\* run that has ended by returning, it is a checkout of the target (of a
\* local branch pointing at it under --attach), no prompt is open, and its
\* return code is main's return value and the exit status.
checkout_is_final ==
    \A i \in issued("checkout") :
        /\ i = Len(commands)
        /\ pc = "exit"
        /\ resolved_next
        /\ commands[i] = checkout_command(selected_branch, selected_hash,
                                          commands[i].rc)
        /\ selected_branch # <<>> =>
              /\ attach
              /\ \E b \in 1..Len(local_branches) :
                    selected_branch[1] = local_branches[b]
        /\ caller = None
        /\ raised = NoException
        /\ retval = <<commands[i].rc>>
        /\ exit_status = retval

\* C9 as stated: every run that reaches Resolved(next) has requested exactly
\* one checkout by the time it ends, the checkout is the last thing the run
\* does, and the run returns the checkout's return code.
C9_AsStated ==
    /\ checkout_is_final
    /\ (pc = "exit" /\ resolved_next) => Cardinality(issued("checkout")) = 1

\* C9: move and outcome.  At most one checkout is requested in a run, only
\* in a run that has reached Resolved(next) and only after all prompting;
\* it is a checkout of `next`, it is not issued again, and the run returns
\* exactly its return code.  A run that reaches Resolved(next) requests
\* exactly one checkout when it ends by returning, which it always does
\* without --attach; under --attach the choice of a branch may end the run
\* first (the branch prompt is cancelled or fails, or a git query of that
\* step fails), and then no checkout is requested.
C9_MoveAndOutcome ==
    /\ checkout_is_final
    /\ Cardinality(issued("checkout")) <= 1
    /\ (pc = "exit" /\ resolved_next /\ (~attach \/ raised = NoException))
          => Cardinality(issued("checkout")) = 1
    /\ (pc = "exit" /\ resolved_next /\ issued("checkout") = {})
          => /\ attach
             /\ issued("for-each-ref") # {}
             /\ \/ raised = Cancelled
                \/ raised = Uncaught("CalledProcessError")
                \/ raised = Uncaught("AssertionError")
                \/ /\ raised.type = "AbortError"
                   /\ raised.exit_code = commands[Len(commands)].rc

\* A run prompted for the candidate and for the branch, and its one checkout
\* failed with code 128, which the run returned.
C9_Witness ==
    /\ pc = "exit"
    /\ Len(target_hashes) >= 2
    /\ Len(local_branches) >= 2
    /\ nread = 2
    /\ Cardinality(issued("checkout")) = 1
    /\ retval = <<128>>
    /\ exit_status = <<128>>

\* The user can quit the candidate prompt, or its input can end
quit_or_end ==
    ( /\ pc = "pwc_input"
      /\ caller = "prompt_for_hash"
      /\ \/ nread' = nread /\ pc' # pc
         \/ /\ nread' = nread + 1
            /\ \E q \in 1..Len(QuitChoice) :
                  normalize_choice_str(raw_response'[1]) = QuitChoice[q] )
    => /\ pc' = "pnc_response"
       /\ response' \in {<<>>, <<QuitChoice[1]>>}
       /\ UNCHANGED <<commands, HEAD, endVars>>

\* The prompt returns None for it, reading no further line
quit_returns_none ==
    ( /\ pc = "pnc_response"
      /\ caller = "prompt_for_hash"
      /\ response \in {<<>>, <<QuitChoice[1]>>} )
    => /\ pc' = "pfh_return"
       /\ selected_index' = <<>>
       /\ UNCHANGED <<ioVars, commands, HEAD, endVars>>

\* prompt_for_hash raises the cancellation, which the wrapper does not report
none_cancels ==
    (pc = "pfh_return" /\ selected_index = <<>>)
    => /\ pc' = "exit"
       /\ raised' = Cancelled
       /\ raised'.cancelled
       /\ stderr' = stderr
       /\ UNCHANGED <<ioVars, commands, HEAD, selected_hash>>

\* A run cancelled at the candidate prompt has moved nothing and reported
\* nothing
cancelled_is_silent ==
    (pc \in {"pnc_response", "pfh_return", "exit"} /\ ~resolved_next
        /\ Len(target_hashes) >= 2)
    => /\ issued("checkout") = {}
       /\ HEAD = head_hash
       /\ (pc = "exit" /\ raised = Cancelled) => stderr = <<>>

\* C10: Cancelled is silent.  When the user quits or the input ends at the
\* candidate prompt, the prompt returns None, prompt_for_hash raises
\* AbortError with cancelled=True, no checkout is issued, the current
\* position is unchanged, and the wrapper prints no error text.
C10_CancelledIsSilent ==
    /\ [] cancelled_is_silent
    /\ [][quit_or_end /\ quit_returns_none /\ none_cancels]_vars

\* A run was cancelled at the candidate prompt by a line the user entered.
C10_Witness ==
    /\ pc = "exit"
    /\ raised = Cancelled
    /\ Len(target_hashes) >= 2
    /\ ~resolved_next
    /\ nread >= 1
    /\ stdout[Len(stdout)].ev = "prompt"
    /\ stderr = <<>>

\* C11: cancellation has a distinct exit status.  The exit status of a run
\* that ends in Cancelled differs from 0, the status of a successful move,
\* and from the status of a run that ends in NoCandidates.
C11_DistinctStatus ==
    (pc = "exit" /\ raised = Cancelled) =>
        /\ exit_status[1] # 0
        /\ exit_status[1]
              # exit_of(no_candidates_error(mode, head_hash), <<>>).status

\* The input ends while the candidate prompt waits for a line
input_ends_at_candidates ==
    /\ pc = "pwc_input"
    /\ caller = "prompt_for_hash"
    /\ pc' # pc
    /\ nread' = nread

\* C12: cancellation produces no standard output.  When the input ends
\* during the candidate prompt, the prompt returns the cancellation signal
\* and nothing has been written to standard output (what is written is
\* never taken back, so this is what the run ends with), and a run that
\* ends in Cancelled has the cancellation status.
C12_NoOutputOnCancel ==
    /\ [][input_ends_at_candidates
            => (response' = <<>> /\ stdout' = <<>>)]_vars
    /\ [] ((pc = "exit" /\ raised = Cancelled)
             => exit_status = <<Cancelled.exit_code>>)

\* The commands of summarize_git_commit and of git_commit_hash
is_describe(c) == c.cmd[1] = "log"
is_resolve(c) == c.cmd[1] = "rev-parse" /\ c.cmd[2] = "--verify"

\* C13: collaborator failure is propagated with its own exit code.  When
\* the describe command of a candidate or a git_commit_hash lookup fails with
\* code r # 0, that command is the run's last, the run ends with an
\* AbortError (no cancellation) whose exit_code is r, r is the exit status,
\* and no checkout is issued; a failure to describe or to resolve HEAD comes
\* before any prompt, so none is shown at all.
C13_CollaboratorFailure ==
    \A i \in 1..Len(commands) :
        ((is_describe(commands[i]) \/ is_resolve(commands[i]))
            /\ commands[i].rc # 0)
        => /\ i = Len(commands)
           /\ pc = "exit"
           /\ raised.type = "AbortError"
           /\ ~raised.cancelled
           /\ raised.exit_code = commands[i].rc
           /\ exit_status = <<commands[i].rc>>
           /\ stderr = <<raised.message>>
           /\ issued("checkout") = {}
           /\ (is_describe(commands[i]) \/ commands[i].arg = HeadText)
                 => (prompt_events = {} /\ nread = 0)

\* The second candidate could not be described: the run ended with the
\* code of `git log`, 128.
C13_Witness ==
    /\ pc = "exit"
    /\ Cardinality(issued("log")) = 2
    /\ commands[Len(commands)].cmd[1] = "log"
    /\ commands[Len(commands)].rc = 128
    /\ exit_status = <<128>>

-----------------------------------------------------------------------------
(* Two runs of main, the second in the opposite direction *)

opposite(m) == IF m = PREV THEN NEXT ELSE PREV

\* After a run that has moved, the other command is run in the same
\* repository: a new process, with HEAD where the first run has left it and
\* the same rev-list output.  `origin` keeps where the first run started.
Reinvoke ==
    /\ pc = "exit"
    /\ raised = NoException
    /\ retval = <<0>>
    /\ origin = <<>>
    /\ origin' = <<head_hash>>
    /\ mode' = opposite(mode)
    /\ pc' = "options"
    /\ commands' = <<>>
    /\ attach' = FALSE
    /\ lines' = <<>>
    /\ nodes' = <<>>
    /\ commit_graph' = EmptyDict
    /\ graph' = <<>>
    /\ head_hash' = None
    /\ target_hashes' = <<>>
    /\ commit_descriptions' = <<>>
    /\ selected_hash' = None
    /\ local_branches' = <<>>
    /\ selected_branch' = <<>>
    /\ stdout' = <<>>
    /\ nread' = 0
    /\ raised' = NoException
    /\ retval' = <<>>
    /\ exit_status' = <<>>
    /\ stderr' = <<>>
    /\ UNCHANGED <<HEAD, listing, pncVars, pwcVars, call>>

\* The input lines of the two runs: the numerals of the two candidates
RoundTripLines == { <<"1">>, <<" ", "2", "\t">> }

NextRoundTrip ==
    \/ Options
    \/ GitRoot
    \/ RevList
    \/ GraphLine
    \/ GraphReturn
    \/ ResolveHead
    \/ Targets
    \/ NoCandidates
    \/ Describe
    \/ PromptNumbered({Unbounded})
    \/ PromptChoices
    \/ ReadInput(RoundTripLines)
    \/ NumberedResponse
    \/ HashChosen
    \/ Attach
    \/ BranchPrompt
    \/ BranchChosen
    \/ Checkout
    \/ Reinvoke

SpecRoundTrip == Init /\ [][NextRoundTrip]_vars

-----------------------------------------------------------------------------
(* The string functions of gitutils called by themselves *)

\* The strings handed to ellipsize: the beginnings of one text of distinct
\* characters that has a dot among them
TextChars == <<"a", "b", "c", "d", "e", ".", "g", "h", "i", "j", "k", "l", "m">>
Texts == {SubSeq(TextChars, 1, n) : n \in 0..MaxText}

\* The widths handed to ellipsize: 0, which its assertion refuses, every
\* width up to one more than the longest string, and math.inf
EllipsizeWidths == {Unbounded} \cup {Columns(n) : n \in 0..(MaxText + 1)}

\* The strings and prefixes handed to remove_prefix, and its defaults
Words == SeqsUpTo({"f", "o"}, MaxWord)
WordDefaults == {<<>>, << <<"d">> >>}

\* The calls to make
PendingCalls ==
    {[fn |-> "ellipsize", s |-> s, width |-> width,
      done |-> FALSE, result |-> <<>>] :
        s \in Texts, width \in EllipsizeWidths}
    \cup
    {[fn |-> "remove_prefix", s |-> s, prefix |-> prefix, default |-> default,
      done |-> FALSE, result |-> <<>>] :
        s \in Words, prefix \in Words, default \in WordDefaults}

\* ellipsize(s, width), gitutils.py:207-227
ApplyEllipsize ==
    /\ pc = "utils"
    /\ call.fn = "ellipsize"
    /\ IF ~ellipsize_precondition(call.width)
       THEN /\ Raise(Uncaught("AssertionError"))
            /\ UNCHANGED call
       ELSE /\ call' = [call EXCEPT !.done = TRUE,
                                    !.result = <<ellipsize(call.s, call.width)>>]
            /\ pc' = "returned"
            /\ UNCHANGED endVars
    /\ UNCHANGED <<envVars, graphVars, mainVars, pncVars, pwcVars, ioVars,
                   origin>>

\* remove_prefix(s, prefix=..., default=...), gitutils.py:230-238
ApplyRemovePrefix ==
    /\ pc = "utils"
    /\ call.fn = "remove_prefix"
    /\ call' = [call EXCEPT !.done = TRUE,
                            !.result = remove_prefix(call.s, call.prefix,
                                                     call.default)]
    /\ pc' = "returned"
    /\ UNCHANGED <<envVars, graphVars, mainVars, pncVars, pwcVars, ioVars,
                   endVars, origin>>

InitUtils ==
    /\ \E first_call \in PendingCalls : InitWith("utils", first_call)
    /\ mode = PREV
    /\ HEAD = CommitSeq[1]
    /\ listing = <<>>

NextUtils ==
    \/ ApplyEllipsize
    \/ ApplyRemovePrefix

SpecUtils == InitUtils /\ [][NextUtils]_vars

-----------------------------------------------------------------------------
(* Claims about the prompts of gitutils *)

\* The choices that have a spelling equal to the line once both are trimmed
\* and case-folded
matching_choices(choice_list, line) ==
    {c \in 1..Len(choice_list) :
        has_spelling(choice_list[c], normalize_choice_str(line))}

\* A step of prompt_with_choices that reads a line (and not end-of-input)
line_is_read == pc = "pwc_input" /\ nread' = nread + 1

\* C14: whenever prompt_with_choices reads a non-blank line whose trimmed,
\* case-folded form equals the trimmed, case-folded form of a spelling of a
\* choice, it returns on that line, and what it returns is the first
\* (canonical) spelling of a choice with such a spelling, exactly as it was
\* configured and not as the user typed it.
C14_CanonicalSpelling ==
    [][(/\ line_is_read
        /\ normalize_choice_str(raw_response'[1]) # <<>>
        /\ matching_choices(pwc_choices, raw_response'[1]) # {})
       => /\ pc' = pwc_return_pc(pwc_caller)
          /\ \E c \in matching_choices(pwc_choices, raw_response'[1]) :
                response' = <<pwc_choices[c][1]>>]_vars

\* " YES<tab>" was typed and "Yes" came back
C14_Witness ==
    /\ pc = "returned"
    /\ pwc_caller = "direct"
    /\ raw_response = << <<" ", "Y", "E", "S", "\t">> >>
    /\ response = << <<"Y", "e", "s">> >>

\* C15: when a default is configured, prompt_with_choices returns on a line
\* that is empty or all whitespace, and returns the canonical spelling of
\* the default choice; and prompt_with_numbered_choices, handed that answer
\* for such a line, returns its default_index.
C15_DefaultAccepted ==
    [][/\ (/\ line_is_read
           /\ pwc_default # <<>>
           /\ normalize_choice_str(raw_response'[1]) = <<>>)
          => /\ pc' = pwc_return_pc(pwc_caller)
             /\ \E c \in matching_choices(pwc_choices, pwc_default[1]) :
                   response' = <<pwc_choices[c][1]>>
       /\ (/\ pc = "pnc_response"
           /\ response # <<>>
           /\ strip(raw_response[1]) = <<>>)
          => /\ default_index # <<>>
             /\ selected_index' = default_index
             /\ pc' = return_pc(caller)]_vars

\* A numbered prompt over three items with default_index 1 has read the
\* line " " and prompt_with_choices has answered "2"
C15_Witness ==
    /\ pc = "pnc_response"
    /\ caller = "direct"
    /\ Len(choices) = 3
    /\ default_index = <<1>>
    /\ raw_response = << <<" ">> >>
    /\ response = << <<"2">> >>

\* The line read matches no spelling and is not blank
line_matches_nothing ==
    /\ line_is_read
    /\ normalize_choice_str(raw_response'[1]) # <<>>
    /\ matching_choices(pwc_choices, raw_response'[1]) = {}

\* The line read is blank and there is no default
blank_line_without_default ==
    /\ line_is_read
    /\ normalize_choice_str(raw_response'[1]) = <<>>
    /\ pwc_default = <<>>

\* What a step has added to standard output
printed_by_step == SubSeq(stdout', Len(stdout) + 1, Len(stdout'))

\* C16: prompt_with_choices does not return on a non-blank line that matches
\* no spelling, nor on a blank line when there is no default: it stays in
\* its loop, about to read another line.  After the prompt it prints, in the
\* first case, exactly one diagnostic, by the invalid_handler of the caller
\* if one was given and by the default handler otherwise, and in the second
\* case nothing.
C16_Reprompt ==
    [][/\ line_matches_nothing
          => /\ pc' = "pwc_input"
             /\ UNCHANGED <<response, retval, raised>>
             /\ printed_by_step
                   = <<[ev |-> "prompt"],
                       [ev |-> "invalid", by |-> invalid_handler],
                       [ev |-> "newline"]>>
       /\ blank_line_without_default
          => /\ pc' = "pwc_input"
             /\ UNCHANGED <<response, retval, raised>>
             /\ printed_by_step = <<[ev |-> "prompt"]>>
       /\ (pc = "pwc" /\ pc' = "pwc_input")
          => invalid_handler'
                = (IF invalid_handler = None THEN "default_invalid_handler"
                   ELSE invalid_handler)]_vars

\* "x" and then a blank line were entered at a prompt without default and
\* without invalid_handler, and the prompt is reading on
C16_Witness ==
    /\ pc = "pwc_input"
    /\ pwc_caller = "direct"
    /\ pwc_default = <<>>
    /\ invalid_handler = "default_invalid_handler"
    /\ raw_response = << <<" ">> >>
    /\ stdout = <<[ev |-> "prompt"],
                  [ev |-> "invalid", by |-> "default_invalid_handler"],
                  [ev |-> "newline"], [ev |-> "prompt"]>>

\* A step of prompt_with_choices that finds its input at an end
end_of_input == pc = "pwc_input" /\ nread' = nread

\* C17: when prompt_with_choices finds the input at an end, it returns None
\* to its caller and raises nothing; and None is not what it returns on a
\* line, which is always the spelling of a choice.
C17_EndOfInput ==
    [][/\ end_of_input
          => /\ response' = <<>>
             /\ pc' = pwc_return_pc(pwc_caller)
             /\ raised' = NoException
             /\ UNCHANGED <<retval, exit_status, stderr>>
       /\ (line_is_read /\ pc' # pc)
          => /\ response' # <<>>
             /\ \E c \in 1..Len(pwc_choices) :
                   response' = <<pwc_choices[c][1]>>]_vars

\* The yes/no prompt has returned None after a rejected line and the end of
\* the input
C17_Witness ==
    /\ pc = "returned"
    /\ pwc_caller = "direct"
    /\ pwc_choices = YesNo
    /\ nread = 1
    /\ response = <<>>
    /\ raised = NoException
    /\ stdout[Len(stdout)] = [ev |-> "newline"]
    /\ stdout[Len(stdout) - 1] = [ev |-> "prompt"]

\* prompt_with_numbered_choices was called directly and has taken a step
numbered_call_started == caller = "direct" /\ pc # "pnc"

\* Nothing was printed, nothing was read, prompt_with_choices was not called
\* and nothing was raised
nothing_happened ==
    /\ stdout = <<>>
    /\ nread = 0
    /\ pwc_caller = None
    /\ raised = NoException
    /\ stderr = <<>>

\* C18: prompt_with_numbered_choices called with no items returns None in
\* its first step, having printed nothing and read no input.
C18_EmptySentinel ==
    (numbered_call_started /\ choices = <<>>)
        => /\ pc = "returned"
           /\ selected_index = <<>>
           /\ nothing_happened

\* A call with no items and a default_index has returned
C18_Witness ==
    /\ pc = "returned"
    /\ caller = "direct"
    /\ choices = <<>>
    /\ default_index = <<0>>
    /\ selected_index = <<>>

\* C19: prompt_with_numbered_choices called with exactly one item returns
\* index 0 in its first step, having printed nothing and read no input,
\* whatever default_index is, and with the input left as it was.
C19_SingleBypass ==
    (numbered_call_started /\ Len(choices) = 1)
        => /\ pc = "returned"
           /\ selected_index = <<0>>
           /\ nothing_happened

\* A call with one item and a default_index past the end has returned 0
C19_Witness ==
    /\ pc = "returned"
    /\ caller = "direct"
    /\ Len(choices) = 1
    /\ default_index = <<3>>
    /\ selected_index = <<0>>
    /\ nread = 0

\* The line on which prompt_with_choices returned selects index i of the
\* numbered prompt: trimmed, it is the numeral of i + 1, or it is blank and
\* i is the default index
line_selects(i) ==
    /\ response # <<>>
    /\ \/ strip(raw_response[1]) = str(i + 1)
       \/ strip(raw_response[1]) = <<>> /\ default_index = <<i>>

\* C20: with N >= 2 items, prompt_with_numbered_choices raises nothing when
\* it looks at the answer of prompt_with_choices (its assertion
\* 1 <= choice <= N holds), and when it returns, it returns None or an index
\* i with 0 <= i < N, and it returns i exactly when the decisive line
\* selects i.
C20_SelectionRange ==
    [][(pc = "pnc_response" /\ Len(choices) >= 2)
       => /\ raised' = NoException
          /\ pc' # "exit"
          /\ (pc' = return_pc(caller))
             => /\ \/ selected_index' = <<>>
                   \/ \E i \in 0..(Len(choices) - 1) : selected_index' = <<i>>
                /\ \A i \in 0..(Len(choices) - 1) :
                      (selected_index' = <<i>>) <=> line_selects(i)]_vars

\* Index 2 of three items was returned without a default
C20_Witness ==
    /\ pc = "returned"
    /\ caller = "direct"
    /\ Len(choices) = 3
    /\ default_index = <<>>
    /\ selected_index = <<2>>
    /\ nread = 2

\* The trimmed, case-folded line is one of the spellings
spelled(line, spellings) ==
    \E j \in 1..Len(spellings) : normalize_choice_str(line) = spellings[j]

\* How many times the preamble and the numbered list were printed
times_listed ==
    Cardinality({i \in 1..Len(stdout) : stdout[i].ev = "instructions"})

times_listed_next ==
    Cardinality({i \in 1..Len(stdout') : stdout'[i].ev = "instructions"})

\* prompt_with_numbered_choices is about to look at the answer to a help line
help_answered == pc = "pnc_response" /\ response = <<HelpChoice[1]>>

\* C21: at a numbered prompt over N >= 2 items a line that is "help", "h" or
\* "?" in any casing and with any surrounding whitespace is answered with
\* the help choice; on that answer the prompt prints an empty line and the
\* same preamble and numbered list again, does not return, and goes on to
\* read another line.  The list is printed once before the first prompt and
\* by no other step, so it has been printed once more than there were help
\* lines.
C21_HelpRedisplays ==
    [][/\ (/\ line_is_read
           /\ pwc_caller = "numbered"
           /\ spelled(raw_response'[1], HelpChoice))
          => /\ pc' = "pnc_response"
             /\ response' = <<HelpChoice[1]>>
       /\ help_answered
          => /\ printed_by_step
                   = <<[ev |-> "newline"], [ev |-> "instructions"]>>
             /\ pc' = "pwc"
             /\ UNCHANGED <<instructions, selected_index, choices,
                            default_index, nread, endVars>>
       /\ (pc = "pwc" /\ pwc_caller = "numbered") => pc' = "pwc_input"
       /\ times_listed_next
             = times_listed
                 + (IF help_answered \/ (pc = "pnc" /\ pc' = "pwc")
                    THEN 1 ELSE 0)
       /\ (pc = "pnc" /\ pc' = "pwc") => times_listed = 0]_vars

\* After two help lines the list has been printed three
\* times and the prompt is reading on
C21_Witness ==
    /\ pc = "pwc_input"
    /\ pwc_caller = "numbered"
    /\ nread = 2
    /\ times_listed = 3
    /\ stdout = <<[ev |-> "instructions"],
                  [ev |-> "prompt"], [ev |-> "newline"], [ev |-> "instructions"],
                  [ev |-> "prompt"], [ev |-> "newline"], [ev |-> "instructions"]>>

\* C22: at a numbered prompt over N >= 2 items a line that is "quit" or "q"
\* in any casing and with any surrounding whitespace is answered with the
\* quit choice, and on that answer prompt_with_numbered_choices returns None
\* without a further line being read, whether or not there is a default
\* index.
C22_QuitCancels ==
    [][/\ (/\ line_is_read
           /\ pwc_caller = "numbered"
           /\ spelled(raw_response'[1], QuitChoice))
          => /\ pc' = "pnc_response"
             /\ response' = <<QuitChoice[1]>>
       /\ (pc = "pnc_response" /\ response = <<QuitChoice[1]>>)
          => /\ pc' = return_pc(caller)
             /\ selected_index' = <<>>
             /\ UNCHANGED <<ioVars, endVars>>]_vars

\* With default index 1 configured, one line was read, no diagnostic and no
\* list followed it, and None was returned: the line was a quit line
C22_Witness ==
    /\ pc = "returned"
    /\ caller = "direct"
    /\ Len(choices) = 3
    /\ default_index = <<1>>
    /\ selected_index = <<>>
    /\ nread = 1
    /\ stdout = <<[ev |-> "instructions"], [ev |-> "prompt"]>>

\* prompt_with_numbered_choices has printed its list and not yet returned
list_printed == instructions # NoInstructions

\* C24: whenever prompt_with_numbered_choices has printed its list on a
\* terminal of W columns, every item line is at most W characters long, and
\* in fact at most W - 1; and when the width is unbounded (standard output
\* is no terminal) every item line is `  <1-based index>: <label>` in full.
C24_WidthBudget ==
    list_printed =>
        /\ Len(instructions.items) = Len(choices)
        /\ \A i \in 1..Len(choices) :
              IF instructions.columns.inf
              THEN instructions.items[i] = item_line(i, choices[i])
              ELSE /\ Len(instructions.items[i]) <= instructions.columns.n
                   /\ Len(instructions.items[i])
                         <= instructions.columns.n - 1

\* On 7 columns the ten characters of "  1: a msg" were printed as "  1..."
C24_Witness ==
    /\ pc = "pwc_input"
    /\ instructions.columns = Columns(7)
    /\ Len(item_line(1, choices[1])) = 10
    /\ instructions.items[1] = <<" ", " ", "1", ".", ".", ".">>
    /\ stdout[1] = [ev |-> "instructions"]

\* The default index, if any, is an index of the list
default_in_range ==
    default_index # <<>>
        => (0 <= default_index[1] /\ default_index[1] < Len(choices))

\* C28: for N >= 2 items, and whatever the terminal width, a positive number
\* of columns or unbounded, prompt_with_numbered_choices calls ellipsize
\* with a width above 0: no assertion fails and the list is printed.
C28_EllipsizePrecondition ==
    (numbered_call_started /\ Len(choices) >= 2 /\ default_in_range)
        => /\ raised = NoException
           /\ stdout # <<>>
           /\ stdout[1] = [ev |-> "instructions"]

-----------------------------------------------------------------------------
(* Claims about whole runs of main *)

\* The outcomes of a run that the description of main names: a move with
\* its checkout, NoCandidates, Cancelled, or the AbortError of a collaborator
defined_outcome ==
    \/ raised = NoException /\ issued("checkout") # {}
    \/ raised = no_candidates_error(mode, head_hash)
    \/ raised = Cancelled
    \/ raised.type = "AbortError" /\ ~raised.cancelled

\* C27: once git has answered the current position, whatever commit id that
\* is and whether or not the graph has a node for it, the run ends in one of
\* the defined outcomes.
C27_DefinedOutcome ==
    (pc = "exit" /\ head_hash # None) => defined_outcome

-----------------------------------------------------------------------------
(* Termination of the numbered prompt *)

\* A line that decides a numbered prompt: a numeral of 1..N, a spelling of
\* quit, or a blank line when there is a default index
decisive(line) ==
    \/ \E k \in 1..Len(choices) : strip(line) = str(k)
    \/ spelled(line, QuitChoice)
    \/ normalize_choice_str(line) = <<>> /\ default_index # <<>>

\* What the deciding event alone stands for: None for the end of the input
\* and for quit, the default index for a blank line, k - 1 for the numeral k
result_of(eof, line) ==
    IF eof THEN <<>>
    ELSE IF spelled(line, QuitChoice) THEN <<>>
    ELSE IF normalize_choice_str(line) = <<>> THEN default_index
    ELSE <<int(strip(line)) - 1>>

\* The steps of a numbered prompt around its deciding event
first_decisive_event ==
    /\ (line_is_read /\ pwc_caller = "numbered")
       => (IF decisive(raw_response'[1])
           THEN /\ pc' = "pnc_response"
                /\ response' # <<>>
                /\ response' # <<HelpChoice[1]>>
           ELSE \/ pc' = "pwc_input"
                \/ /\ pc' = "pnc_response"
                   /\ response' = <<HelpChoice[1]>>)
    /\ (pc = "pnc_response" /\ response # <<HelpChoice[1]>>)
       => /\ pc' = "returned"
          /\ selected_index'
                = result_of(response = <<>>,
                            IF response = <<>> THEN <<>> ELSE raw_response[1])
          /\ nread' = nread
    /\ help_answered => pc' = "pwc"
    /\ pc = "returned" => nread' = nread

\* C26: a numbered prompt over N >= 2 items, once it is asking, eventually
\* returns when its input delivers a decisive line or ends.  It returns on
\* the first decisive line or at the end of the input and not before: a line
\* that is not decisive leaves it asking, after a diagnostic, the list, or
\* nothing.  What it returns is what that event stands for, whatever lines
\* came before, and nothing is read once it has returned.
C26_Termination ==
    /\ (pwc_caller = "numbered") ~> (pc = "returned")
    /\ [][first_decisive_event]_vars

\* After a rejected line the numeral 1 was read and index 0 returned
C26_Witness ==
    /\ pc = "returned"
    /\ caller = "direct"
    /\ Len(choices) = 3
    /\ selected_index = <<0>>
    /\ nread = 2
    /\ Len(stdout) = 5
    /\ stdout[3].ev = "invalid"

-----------------------------------------------------------------------------
(* Claims about the string functions of gitutils *)

\* ellipsize was called with an integer width of at least 1 and has returned
ellipsized ==
    /\ call.fn = "ellipsize"
    /\ call.done
    /\ ~call.width.inf
    /\ call.width.n >= 1

\* C23: for a width of at least 1, ellipsize returns the string itself when
\* it is not longer than the width.  Otherwise it returns exactly `width`
\* characters: for a width of at least 3 the first width - 3 characters of
\* the string and then three dots, for a smaller width the first `width`
\* characters of the string.  Every call with such a width returns.
C23_Ellipsis ==
    /\ (call.fn = "ellipsize" /\ ~call.width.inf /\ call.width.n >= 1)
           => (pc # "exit" /\ (pc = "returned" => call.done))
    /\ ellipsized =>
          LET s == call.s
              width == call.width.n
              r == call.result[1]
          IN  IF Len(s) <= width THEN r = s
              ELSE /\ Len(r) = width
                   /\ IF width >= 3
                      THEN /\ \A i \in 1..(width - 3) : r[i] = s[i]
                           /\ \A i \in (width - 2)..width : r[i] = "."
                      ELSE \A i \in 1..width : r[i] = s[i]

\* Eleven characters at width 10 gave ten characters that end in "..."
C23_Witness ==
    /\ ellipsized
    /\ Len(call.s) = 11
    /\ call.width = Columns(10)
    /\ call.result
          = << <<"a", "b", "c", "d", "e", ".", "g", ".", ".", ".">> >>

\* remove_prefix has returned
prefix_removed == call.fn = "remove_prefix" /\ call.done

\* The string begins with the prefix
begins_with(s, prefix) ==
    /\ Len(prefix) <= Len(s)
    /\ \A i \in 1..Len(prefix) : s[i] = prefix[i]

\* C25: remove_prefix returns the rest of the string after the prefix when
\* the string is not empty and begins with the prefix, which is the empty
\* string when the two are equal and the string itself when the prefix is
\* empty; in every other case, that of an empty string included, it returns
\* `default`.
C25_RemovePrefix ==
    prefix_removed =>
        IF call.s # <<>> /\ begins_with(call.s, call.prefix)
        THEN /\ Len(call.result) = 1
             /\ call.prefix \o call.result[1] = call.s
             /\ (call.s = call.prefix) => call.result = << <<>> >>
             /\ (call.prefix = <<>>) => call.result = <<call.s>>
        ELSE call.result = call.default

\* "foo" without its prefix "f" is "oo"
C25_Witness ==
    /\ prefix_removed
    /\ call.s = <<"f", "o", "o">>
    /\ call.prefix = <<"f">>
    /\ call.result = << <<"o", "o">> >>

-----------------------------------------------------------------------------
(* Claims about two runs of main *)

\* The second run, in the opposite direction, has looked up its candidates
candidates_of_return == origin # <<>> /\ head_hash # None /\ pc # "targets"

\* C29: navigation is reversible.  After a run that has moved from X, a run
\* in the opposite direction over the same rev-list output finds a node for
\* its position and has X among its candidates; when X is its only
\* candidate it selects X without describing a commit and without the
\* candidate prompt (nothing is prompted or read before the target is
\* established), and a checkout that succeeds puts HEAD back on X.
C29_Reversible ==
    candidates_of_return =>
        /\ at_node
        /\ \E i \in 1..Len(target_hashes) : target_hashes[i] = origin[1]
        /\ (Len(target_hashes) = 1) =>
              /\ selected_hash = origin[1]
              /\ issued("log") = {}
              /\ commit_descriptions = <<>>
              /\ caller # "prompt_for_hash"
              /\ (pc = "attach" \/ ~attach)
                    => (prompt_events = {} /\ nread = 0)
              /\ (pc = "exit" /\ raised = NoException /\ retval = <<0>>)
                    => HEAD = origin[1]

\* A run back, with one candidate, has checked out the commit the first run
\* started from
C29_Witness ==
    /\ origin # <<>>
    /\ pc = "exit"
    /\ raised = NoException
    /\ retval = <<0>>
    /\ Len(target_hashes) = 1
    /\ HEAD = origin[1]
    /\ HEAD # head_hash
    /\ nread = 0

====
